---------------------------- MODULE Spec2Model ----------------------------
(***************************************************************************)
(* A model of the gurdjieff-bot data pipeline:                             *)
(*   - TextChunker (src/data_processing/text_chunker.py): clean_text,      *)
(*     split_into_sentences, count_tokens, create_chunks, _create_overlap  *)
(*   - EmbeddingService.generate_embeddings_batch / process_chunks_file    *)
(*   - process_all.main, the four-stage pipeline driver                    *)
(*                                                                         *)
(* A Python str is modelled as a sequence of one-character strings over    *)
(* the alphabet Chars; each character stands for a character class that    *)
(* the regular expressions of the chunker distinguish.                     *)
(***************************************************************************)
EXTENDS Integers, Sequences, FiniteSets, TLC

VARIABLES
    \* ---- TextChunker.create_chunks ----
    text,               \* the argument `text`
    chunk_size,         \* self.chunk_size
    chunk_overlap,      \* self.chunk_overlap
    sentences,          \* local `sentences`
    idx,                \* position of the for-loop in `sentences` (1-based)
    chunks,             \* local `chunks`
    current_chunk,      \* local `current_chunk`
    current_sentences,  \* local `current_sentences`
    current_overlap,    \* history: the overlap sentences current_chunk began with
    chunk_log,          \* history: per chunk, its overlap and its new sentences
    pc,                 \* control point of create_chunks
    \* ---- EmbeddingService ----
    e_chunks,           \* data["chunks"] of process_chunks_file
    e_batch_size,       \* batch_size of generate_embeddings_batch
    e_i,                \* loop variable i of generate_embeddings_batch (0-based)
    embeddings,         \* local `embeddings`
    e_failed,           \* history: the 0-based text positions whose batch failed
    e_pc,               \* control point of process_chunks_file
    \* ---- process_all.main ----
    args,               \* parsed command line flags
    api_key,            \* whether OPENAI_API_KEY is set
    raw_pdfs,           \* number of PDFs in data/raw
    extracted,          \* number of *_extracted.json files in data/processed
    chunk_files,        \* number of *_chunks.json files in data/processed
    embedding_files,    \* number of *_embeddings.json files in data/embeddings
    store,              \* documents in the collection: set of <<file, batch>>
    todo,               \* the files the running stage's loop has yet to visit
    added,              \* history: the embedding files whose add completed
    attempted,          \* history: the embedding files whose add was started
    stages,             \* history: the stages started, in order
    p_pc,               \* control point of main
    exit_code,          \* return value of main (-1 while running)
    \* ---- server/main.py chat_with_gurdjieff ----
    search_results,     \* local `search_results`
    c_i,                \* position of the for-loop in `search_results` (1-based)
    context_texts,      \* local `context_texts`
    sources,            \* local `sources`
    context,            \* local `context`, the excerpts put in the system prompt
    response_sources,   \* the `sources` field of the ChatResponse returned
    c_pc                \* control point of chat_with_gurdjieff

chunker_vars == <<text, chunk_size, chunk_overlap, sentences, idx, chunks,
                  current_chunk, current_sentences, current_overlap, chunk_log,
                  pc>>
embed_vars == <<e_chunks, e_batch_size, e_i, embeddings, e_failed, e_pc>>
pipe_vars == <<args, api_key, raw_pdfs, extracted, chunk_files, embedding_files,
               store, todo, added, attempted, stages, p_pc, exit_code>>
chat_vars == <<search_results, c_i, context_texts, sources, context,
               response_sources, c_pc>>
vars == <<chunker_vars, embed_vars, pipe_vars, chat_vars>>

-----------------------------------------------------------------------------
(* Bounds of the model *)

\* the most pages a document has
MaxPages == 4
\* the largest chunk_size tried
MaxChunkSize == 6
\* the longest raw text tried character by character
MaxLen == 4
\* the largest chunk_size tried on those texts
MaxTextChunk == 2

-----------------------------------------------------------------------------
(* Characters and strings *)

\* "a" a letter, "1" a digit, "." a sentence terminator, "q" a straight quote,
\* " " a blank, "\n" a newline, "@" a character outside the allow-list
Chars == {"a", "1", ".", "q", " ", "\n", "@"}

SP == <<" ">>

IsSpace(c) == c \in {" ", "\n"}
IsLetter(c) == c = "a"
IsDigit(c) == c = "1"
IsWord(c) == IsLetter(c) \/ IsDigit(c)
IsTerminator(c) == c = "."

Min(a, b) == IF a <= b THEN a ELSE b

\* the character class the tokenizer and the regular expressions see:
\* "L" letter, "D" digit, "S" whitespace, "P" anything else
Class(c) ==
    IF IsLetter(c) THEN "L"
    ELSE IF IsDigit(c) THEN "D"
    ELSE IF IsSpace(c) THEN "S"
    ELSE "P"

\* the first position j >= i of s whose class is not cls (Len(s)+1 if none)
RECURSIVE RunEnd(_, _, _)
RunEnd(s, i, cls) ==
    IF i > Len(s) \/ Class(s[i]) # cls THEN i ELSE RunEnd(s, i + 1, cls)

\* str.strip()
RECURSIVE lstrip(_)
lstrip(s) == IF s # <<>> /\ IsSpace(Head(s)) THEN lstrip(Tail(s)) ELSE s

RECURSIVE rstrip(_)
rstrip(s) ==
    IF s # <<>> /\ IsSpace(s[Len(s)]) THEN rstrip(SubSeq(s, 1, Len(s) - 1)) ELSE s

strip(s) == rstrip(lstrip(s))

\* " ".join(ss)
RECURSIVE JoinSp(_)
JoinSp(ss) ==
    IF ss = <<>> THEN <<>>
    ELSE IF Len(ss) = 1 THEN ss[1]
    ELSE ss[1] \o SP \o JoinSp(Tail(ss))

-----------------------------------------------------------------------------
(* TextChunker: clean_text *)

\* re.sub(r'\s+', ' ', text): every run of whitespace becomes one blank
RECURSIVE CollapseWhitespace(_)
CollapseWhitespace(s) ==
    IF s = <<>> THEN <<>>
    ELSE IF IsSpace(Head(s))
         THEN SP \o CollapseWhitespace(SubSeq(s, RunEnd(s, 1, "S"), Len(s)))
         ELSE <<Head(s)>> \o CollapseWhitespace(Tail(s))

\* re.sub(r'^\d+\s*$', '', text, flags=re.MULTILINE) on one line: a line of
\* digits followed only by whitespace is emptied
StripNumericLine(line) ==
    IF line # <<>> /\ IsDigit(line[1])
       /\ RunEnd(line, RunEnd(line, 1, "D"), "S") > Len(line)
    THEN <<>>
    ELSE line

\* the same substitution on a text: line by line, the newlines kept
RECURSIVE StripNumericLines(_)
StripNumericLines(s) ==
    LET nl == CHOOSE j \in 1..(Len(s) + 1) :
                  /\ j = Len(s) + 1 \/ s[j] = "\n"
                  /\ \A k \in 1..(j - 1) : s[k] # "\n"
    IN  IF nl > Len(s) THEN StripNumericLine(s)
        ELSE StripNumericLine(SubSeq(s, 1, nl - 1)) \o <<"\n">>
             \o StripNumericLines(SubSeq(s, nl + 1, Len(s)))

\* the allow-list of re.sub(r'[^\w\s\.\,\;\:\!\?\-\'\"]', ' ', text)
Allowed(c) == IsWord(c) \/ IsSpace(c) \/ c \in {".", "q"}

ReplaceDisallowed(s) == [k \in 1..Len(s) |-> IF Allowed(s[k]) THEN s[k] ELSE " "]

\* the two quote substitutions: their character classes hold the straight
\* quote only, which is replaced by itself
NormalizeQuotes(s) == [k \in 1..Len(s) |-> IF s[k] = "q" THEN "q" ELSE s[k]]

clean_text(s) ==
    strip(NormalizeQuotes(ReplaceDisallowed(StripNumericLines(CollapseWhitespace(s)))))

-----------------------------------------------------------------------------
(* TextChunker: split_into_sentences *)

\* re.split(r'(?<=[.!?])\s+', text): cut at each whitespace run that follows a
\* terminator; cur is the piece being read
RECURSIVE ReSplit(_, _, _)
ReSplit(s, i, cur) ==
    IF i > Len(s) THEN <<cur>>
    ELSE IF IsSpace(s[i]) /\ i > 1 /\ IsTerminator(s[i - 1])
         THEN <<cur>> \o ReSplit(s, RunEnd(s, i, "S"), <<>>)
         ELSE ReSplit(s, i + 1, Append(cur, s[i]))

\* [s.strip() for s in sentences if s.strip()]
RECURSIVE StripAndFilter(_)
StripAndFilter(ss) ==
    IF ss = <<>> THEN <<>>
    ELSE IF strip(Head(ss)) # <<>>
         THEN <<strip(Head(ss))>> \o StripAndFilter(Tail(ss))
         ELSE StripAndFilter(Tail(ss))

split_into_sentences(s) == StripAndFilter(ReSplit(s, 1, <<>>))

-----------------------------------------------------------------------------
(* TextChunker: count_tokens *)

\* len(self.encoding.encode(text)).  The encoding is tiktoken's cl100k_base,
\* which first cuts the text into pieces (a letter run with at most one
\* leading non-letter, non-digit character; one to three digits; a punctuation
\* run with an optional leading blank; whitespace, which leaves its last
\* character to the piece that follows) and encodes each piece on its own.
\* The model counts one token per piece.  TokensFrom(s, i) is the number of
\* pieces of s from position i on.
RECURSIVE TokensFrom(_, _)
TokensFrom(s, i) ==
    IF i > Len(s) THEN 0
    ELSE LET c == Class(s[i])
             n == IF i < Len(s) THEN Class(s[i + 1]) ELSE "E"
             ws == RunEnd(s, i, "S")
         IN  IF c = "L" THEN 1 + TokensFrom(s, RunEnd(s, i, "L"))
             ELSE IF c = "D" THEN 1 + TokensFrom(s, Min(RunEnd(s, i, "D"), i + 3))
             ELSE IF n = "L" THEN 1 + TokensFrom(s, RunEnd(s, i + 1, "L"))
             ELSE IF c = "P" THEN 1 + TokensFrom(s, RunEnd(s, i, "P"))
             ELSE IF n = "P" THEN 1 + TokensFrom(s, RunEnd(s, i + 1, "P"))
             ELSE IF ws > Len(s) THEN 1
             ELSE IF ws - i >= 2 THEN 1 + TokensFrom(s, ws - 1)
             ELSE 1 + TokensFrom(s, ws)

count_tokens(s) == TokensFrom(s, 1)

-----------------------------------------------------------------------------
(* TextChunker: _create_overlap *)

\* mutant: the budget test is off by one
FitsOverlap_OffByOne(tokens, overlap) == tokens <= overlap + 1

\* mutant: the budget test is strict
FitsOverlap_Strict(tokens, overlap) == tokens < overlap

\* `tokens <= self.chunk_overlap`
FitsOverlap(tokens, overlap) == tokens <= overlap

\* mutant: the scan passes over a sentence that does not fit and goes on to
\* the earlier ones
RECURSIVE OverlapScan_Skip(_, _, _, _)
OverlapScan_Skip(ss, k, taken, overlap) ==
    IF k = 0 THEN taken
    ELSE LET overlap_text == JoinSp(taken)
             potential_overlap ==
                 IF overlap_text # <<>> THEN ss[k] \o SP \o overlap_text ELSE ss[k]
             tokens == count_tokens(potential_overlap)
         IN  IF FitsOverlap(tokens, overlap)
             THEN OverlapScan_Skip(ss, k - 1, <<ss[k]>> \o taken, overlap)
             ELSE OverlapScan_Skip(ss, k - 1, taken, overlap)

\* the reversed scan: k is the sentence being tried, taken the sentences
\* already in overlap_text; it ends at the first sentence that does not fit
RECURSIVE OverlapScan(_, _, _, _)
OverlapScan(ss, k, taken, overlap) ==
    IF k = 0 THEN taken
    ELSE LET overlap_text == JoinSp(taken)
             potential_overlap ==
                 IF overlap_text # <<>> THEN ss[k] \o SP \o overlap_text ELSE ss[k]
             tokens == count_tokens(potential_overlap)
         IN  IF FitsOverlap(tokens, overlap)
             THEN OverlapScan(ss, k - 1, <<ss[k]>> \o taken, overlap)
             ELSE taken

\* the positions of ss the same scan looks at, in the order it visits them
RECURSIVE OverlapScanVisits(_, _, _, _)
OverlapScanVisits(ss, k, taken, overlap) ==
    IF k = 0 THEN <<>>
    ELSE LET overlap_text == JoinSp(taken)
             potential_overlap ==
                 IF overlap_text # <<>> THEN ss[k] \o SP \o overlap_text ELSE ss[k]
             tokens == count_tokens(potential_overlap)
         IN  IF FitsOverlap(tokens, overlap)
             THEN <<k>> \o OverlapScanVisits(ss, k - 1, <<ss[k]>> \o taken, overlap)
             ELSE <<k>>

\* the sentences that make up the overlap text
OverlapSentences(ss, overlap) == OverlapScan(ss, Len(ss), <<>>, overlap)

_create_overlap(ss, overlap) ==
    IF ss = <<>> THEN <<>> ELSE strip(JoinSp(OverlapSentences(ss, overlap)))

-----------------------------------------------------------------------------
(* TextChunker: create_chunks *)

\* the pages a document can have: PDFExtractor keeps the non-empty pages,
\* each stripped
Pages == { <<"a", ".">>,
           <<"a", " ", "a", ".">>,
           <<"1", ".">>,
           <<"a", " ", "a", " ", "a", " ", "a", ".">> }

\* the sequences over S of length at most n
SeqsUpTo(S, n) == UNION { [1..k -> S] : k \in 0..n }

\* process_extracted_json: full_text += page_data["text"] + "\n\n"
RECURSIVE FullText(_)
FullText(pages) ==
    IF pages = <<>> THEN <<>>
    ELSE Head(pages) \o <<"\n", "\n">> \o FullText(Tail(pages))

source_info == "doc"

\* mutant: the blank is put in even before the first sentence
PotentialChunk_AlwaysBlank(cur, sentence) == cur \o SP \o sentence

\* `current_chunk + " " + sentence if current_chunk else sentence`
PotentialChunk(cur, sentence) ==
    IF cur # <<>> THEN cur \o SP \o sentence ELSE sentence

\* `self.count_tokens(potential_chunk) > self.chunk_size and current_chunk`
MustSplit(cur, sentence, size) ==
    count_tokens(PotentialChunk(cur, sentence)) > size /\ cur # <<>>

\* mutant: ids counted from one
ChunkId_OneBased(cs) == Len(cs) + 1

\* `len(chunks)`, the chunk_id of the chunk being appended
ChunkId(cs) == Len(cs)

\* the record appended to chunks
NewChunk(cur, cs) ==
    [ text |-> strip(cur),
      token_count |-> count_tokens(cur),
      source |-> source_info,
      chunk_id |-> ChunkId(cs) ]

\* mutant: the sentence is put in front of the overlap text
ChunkStart_SentenceFirst(overlap_text, sentence) ==
    IF overlap_text # <<>> THEN sentence \o SP \o overlap_text ELSE sentence

\* `overlap_text + " " + sentence if overlap_text else sentence`
ChunkStart(overlap_text, sentence) ==
    IF overlap_text # <<>> THEN overlap_text \o SP \o sentence ELSE sentence

\* mutant: the sentence that caused the split is not recorded
ResetSentences_Empty(sentence) == <<>>

\* `current_sentences = [sentence]`
ResetSentences(sentence) == <<sentence>>

\* mutant: the loop stays on the sentence it has just handled
NextIndex_Stuck(i) == i

\* `for sentence in sentences:` moves on to the next sentence
NextIndex(i) == i + 1

\* mutant: the accumulator left after the loop is never emitted
HasFinalChunk_Dropped(cur) == FALSE

\* `if current_chunk.strip():`
HasFinalChunk(cur) == strip(cur) # <<>>

ChunkerIdle ==
    /\ text = <<>> /\ chunk_size = 1 /\ chunk_overlap = 0
    /\ sentences = <<>> /\ idx = 0 /\ chunks = <<>>
    /\ current_chunk = <<>> /\ current_sentences = <<>>
    /\ current_overlap = <<>> /\ chunk_log = <<>>
    /\ pc = "idle"

\* a TextChunker(chunk_size, chunk_overlap) and a call of create_chunks on the
\* text of a document; chunk_overlap is not checked against chunk_size, so it
\* ranges past it
ChunkerInit ==
    /\ text \in { FullText(p) : p \in SeqsUpTo(Pages, MaxPages) }
    /\ chunk_size \in 1..MaxChunkSize
    /\ chunk_overlap \in 0..(chunk_size + 1)
    /\ sentences = <<>> /\ idx = 0 /\ chunks = <<>>
    /\ current_chunk = <<>> /\ current_sentences = <<>>
    /\ current_overlap = <<>> /\ chunk_log = <<>>
    /\ pc = "start"

\* a TextChunker and a call of create_chunks on any text of at most MaxLen
\* characters
ChunkerTextInit ==
    /\ text \in SeqsUpTo(Chars, MaxLen)
    /\ chunk_size \in 1..MaxTextChunk
    /\ chunk_overlap \in 0..(chunk_size - 1)
    /\ sentences = <<>> /\ idx = 0 /\ chunks = <<>>
    /\ current_chunk = <<>> /\ current_sentences = <<>>
    /\ current_overlap = <<>> /\ chunk_log = <<>>
    /\ pc = "start"

\* lines 42-47: clean, split, empty accumulators
Prepare ==
    /\ pc = "start"
    /\ sentences' = split_into_sentences(clean_text(text))
    /\ chunks' = <<>>
    /\ current_chunk' = <<>>
    /\ current_sentences' = <<>>
    /\ current_overlap' = <<>>
    /\ chunk_log' = <<>>
    /\ idx' = 1
    /\ pc' = "loop"
    /\ UNCHANGED <<text, chunk_size, chunk_overlap>>
    /\ UNCHANGED <<embed_vars, pipe_vars, chat_vars>>

\* lines 53-65: the sentence does not fit; emit current_chunk, start the next
SplitStep ==
    /\ pc = "loop" /\ idx <= Len(sentences)
    /\ LET sentence == sentences[idx]
           overlap_text == _create_overlap(current_sentences, chunk_overlap)
       IN  /\ MustSplit(current_chunk, sentence, chunk_size)
           /\ chunks' = Append(chunks, NewChunk(current_chunk, chunks))
           /\ chunk_log' = Append(chunk_log, [ overlap |-> current_overlap,
                                               new |-> current_sentences ])
           /\ current_chunk' = ChunkStart(overlap_text, sentence)
           /\ current_overlap' = OverlapSentences(current_sentences, chunk_overlap)
           /\ current_sentences' = ResetSentences(sentence)
    /\ idx' = NextIndex(idx)
    /\ UNCHANGED <<text, chunk_size, chunk_overlap, sentences, pc>>
    /\ UNCHANGED <<embed_vars, pipe_vars, chat_vars>>

\* lines 66-68: the sentence joins current_chunk
AppendStep ==
    /\ pc = "loop" /\ idx <= Len(sentences)
    /\ LET sentence == sentences[idx]
       IN  /\ ~MustSplit(current_chunk, sentence, chunk_size)
           /\ current_chunk' = PotentialChunk(current_chunk, sentence)
           /\ current_sentences' = Append(current_sentences, sentence)
    /\ idx' = NextIndex(idx)
    /\ UNCHANGED <<text, chunk_size, chunk_overlap, sentences, chunks,
                   chunk_log, current_overlap, pc>>
    /\ UNCHANGED <<embed_vars, pipe_vars, chat_vars>>

\* lines 70-79: the final chunk, and the return
Finish ==
    /\ pc = "loop" /\ idx > Len(sentences)
    /\ IF HasFinalChunk(current_chunk)
       THEN /\ chunks' = Append(chunks, NewChunk(current_chunk, chunks))
            /\ chunk_log' = Append(chunk_log, [ overlap |-> current_overlap,
                                                new |-> current_sentences ])
       ELSE UNCHANGED <<chunks, chunk_log>>
    /\ pc' = "done"
    /\ UNCHANGED <<text, chunk_size, chunk_overlap, sentences, idx,
                   current_chunk, current_sentences, current_overlap>>
    /\ UNCHANGED <<embed_vars, pipe_vars, chat_vars>>

ChunkerNext == Prepare \/ SplitStep \/ AppendStep \/ Finish

-----------------------------------------------------------------------------
(* EmbeddingService: generate_embeddings_batch, process_chunks_file *)

\* the most chunks in a chunks file
MaxTexts == 4
\* the largest batch_size tried
MaxBatch == 3

\* the chunk texts of a chunks file
ChunkTexts == {"t1", "t2"}

\* the vector the embeddings API returns for a text; it is never empty
Embedding(t) == <<"vec", t>>

\* `texts = [chunk["text"] for chunk in chunks]`
Texts(cs) == [k \in 1..Len(cs) |-> cs[k].text]

\* `batch = texts[i:i + batch_size]`, i 0-based
Batch(texts, i, size) == SubSeq(texts, i + 1, Min(i + size, Len(texts)))

\* `[data.embedding for data in response.data]` of a call that succeeds
BatchEmbeddings(batch) == [k \in 1..Len(batch) |-> Embedding(batch[k])]

\* mutant: a failed batch adds nothing to the list
FailedBatchPlaceholders_Omitted(batch) == <<>>

\* `[[] for _ in batch]`
FailedBatchPlaceholders(batch) == [k \in 1..Len(batch) |-> <<>>]

EmbedIdle ==
    /\ e_chunks = <<>> /\ e_batch_size = 1 /\ e_i = 0
    /\ embeddings = <<>> /\ e_failed = {} /\ e_pc = "idle"

\* process_chunks_file has read the chunks and called generate_embeddings_batch
EmbedInit ==
    /\ \E n \in 0..MaxTexts : \E ts \in [1..n -> ChunkTexts] :
          e_chunks = [k \in 1..n |-> [text |-> ts[k], chunk_id |-> k - 1]]
    /\ e_batch_size \in 1..MaxBatch
    /\ e_i = 0
    /\ embeddings = <<>>
    /\ e_failed = {}
    /\ e_pc = "batches"

\* lines 33-44: one pass of the loop, the API call succeeds
BatchOk ==
    /\ e_pc = "batches" /\ e_i < Len(e_chunks)
    /\ embeddings' = embeddings
                     \o BatchEmbeddings(Batch(Texts(e_chunks), e_i, e_batch_size))
    /\ e_i' = e_i + e_batch_size
    /\ UNCHANGED <<e_chunks, e_batch_size, e_failed, e_pc>>
    /\ UNCHANGED <<chunker_vars, pipe_vars, chat_vars>>

\* lines 33-38, 46-49: one pass of the loop, the API call raises
BatchFail ==
    /\ e_pc = "batches" /\ e_i < Len(e_chunks)
    /\ embeddings' = embeddings
                     \o FailedBatchPlaceholders(Batch(Texts(e_chunks), e_i, e_batch_size))
    /\ e_failed' = e_failed
                   \cup (e_i .. (Min(e_i + e_batch_size, Len(e_chunks)) - 1))
    /\ e_i' = e_i + e_batch_size
    /\ UNCHANGED <<e_chunks, e_batch_size, e_pc>>
    /\ UNCHANGED <<chunker_vars, pipe_vars, chat_vars>>

\* lines 51, 62-67: the list is returned and attached to the chunks;
\* embeddings[i] raises IndexError when the list is too short
Attach ==
    /\ e_pc = "batches" /\ e_i >= Len(e_chunks)
    /\ IF Len(embeddings) >= Len(e_chunks)
       THEN /\ e_chunks' = [k \in 1..Len(e_chunks) |->
                               [ text |-> e_chunks[k].text,
                                 chunk_id |-> e_chunks[k].chunk_id,
                                 embedding |-> embeddings[k] ]]
            /\ e_pc' = "done"
       ELSE /\ e_pc' = "IndexError"
            /\ UNCHANGED e_chunks
    /\ UNCHANGED <<e_batch_size, e_i, embeddings, e_failed>>
    /\ UNCHANGED <<chunker_vars, pipe_vars, chat_vars>>

EmbedNext == BatchOk \/ BatchFail \/ Attach

-----------------------------------------------------------------------------
(* process_all.main *)

\* the most documents in the data directories
MaxDocs == 2

\* the documents; a file of any stage is named after its document
Docs == 1..MaxDocs

\* the number of 100-chunk batches add_embeddings_from_file writes for a
\* document's embedding file; 0: the file holds no valid embedding
BatchesOf(d) == d % 3

\* the documents add_embeddings_from_file writes for a file, batch by batch
FileDocs(d) == { <<d, b>> : b \in 1..BatchesOf(d) }

\* a document the collection may hold before the run
OldDoc == <<0, 1>>

\* mutant: a failure of the embedding loop does not end the run, main goes on
\* to step 4
Return_FallThrough(code) ==
    /\ exit_code' = code
    /\ p_pc' = IF code = 1 /\ p_pc = "step3_loop" THEN "step4" ELSE "done"

\* `return 1` / `return 0`
Return(code) ==
    /\ exit_code' = code
    /\ p_pc' = "done"

PipeIdle ==
    /\ args = [ skip_extraction |-> FALSE, skip_chunking |-> FALSE,
                skip_embeddings |-> FALSE, reset_vector_store |-> FALSE ]
    /\ api_key = FALSE
    /\ raw_pdfs = {} /\ extracted = {} /\ chunk_files = {} /\ embedding_files = {}
    /\ store = {} /\ todo = {} /\ added = {} /\ attempted = {} /\ stages = <<>>
    /\ p_pc = "idle" /\ exit_code = -1

\* main is entered: any flags, any contents of the data directories
PipeInit ==
    /\ args \in [ skip_extraction : BOOLEAN, skip_chunking : BOOLEAN,
                  skip_embeddings : BOOLEAN, reset_vector_store : BOOLEAN ]
    /\ api_key \in BOOLEAN
    /\ raw_pdfs \in SUBSET Docs
    /\ extracted \in SUBSET Docs
    /\ chunk_files \in SUBSET Docs
    /\ embedding_files \in SUBSET Docs
    /\ store \in { {}, {OldDoc} }
    /\ todo = {} /\ added = {} /\ attempted = {} /\ stages = <<>>
    /\ p_pc = "key_check" /\ exit_code = -1

\* lines 36-40
KeyCheck ==
    /\ p_pc = "key_check"
    /\ IF ~api_key /\ ~args.skip_embeddings
       THEN Return(1)
       ELSE p_pc' = "step1" /\ UNCHANGED exit_code
    /\ UNCHANGED <<args, api_key, raw_pdfs, extracted, chunk_files,
                   embedding_files, store, todo, added, attempted, stages>>
    /\ UNCHANGED <<chunker_vars, embed_vars, chat_vars>>

\* lines 53-66 and PDFExtractor.process_all_pdfs: each PDF is extracted or,
\* when its extraction fails, left out; the result is empty (or None) when no
\* PDF was extracted
Extraction ==
    /\ p_pc = "step1"
    /\ IF args.skip_extraction
       THEN /\ p_pc' = "step2"
            /\ UNCHANGED <<extracted, stages, exit_code>>
       ELSE /\ stages' = Append(stages, "extraction")
            /\ \E ok \in SUBSET raw_pdfs :
                  /\ extracted' = extracted \cup ok
                  /\ IF ok = {}
                     THEN Return(1)
                     ELSE p_pc' = "step2" /\ UNCHANGED exit_code
    /\ UNCHANGED <<args, api_key, raw_pdfs, chunk_files, embedding_files,
                   store, todo, added, attempted>>
    /\ UNCHANGED <<chunker_vars, embed_vars, chat_vars>>

\* lines 68-90: every extracted file is chunked and saved
Chunking ==
    /\ p_pc = "step2"
    /\ IF args.skip_chunking
       THEN /\ p_pc' = "step3"
            /\ UNCHANGED <<chunk_files, stages, exit_code>>
       ELSE /\ stages' = Append(stages, "chunking")
            /\ IF extracted = {}
               THEN Return(1) /\ UNCHANGED chunk_files
               ELSE /\ chunk_files' = chunk_files \cup extracted
                    /\ p_pc' = "step3"
                    /\ UNCHANGED exit_code
    /\ UNCHANGED <<args, api_key, raw_pdfs, extracted, embedding_files,
                   store, todo, added, attempted>>
    /\ UNCHANGED <<chunker_vars, embed_vars, chat_vars>>

\* lines 92-100, 122-123
EmbeddingStart ==
    /\ p_pc = "step3"
    /\ IF args.skip_embeddings
       THEN /\ p_pc' = "step4"
            /\ UNCHANGED <<todo, stages, exit_code>>
       ELSE /\ stages' = Append(stages, "embedding")
            /\ IF chunk_files = {}
               THEN Return(1) /\ UNCHANGED todo
               ELSE /\ todo' = chunk_files
                    /\ p_pc' = "step3_loop"
                    /\ UNCHANGED exit_code
    /\ UNCHANGED <<args, api_key, raw_pdfs, extracted, chunk_files,
                   embedding_files, store, added, attempted>>
    /\ UNCHANGED <<chunker_vars, embed_vars, chat_vars>>

\* lines 103-115: one chunks file is embedded and saved
EmbedFileOk ==
    /\ p_pc = "step3_loop"
    /\ \E f \in todo :
          /\ embedding_files' = embedding_files \cup {f}
          /\ todo' = todo \ {f}
    /\ UNCHANGED <<args, api_key, raw_pdfs, extracted, chunk_files, store,
                   added, attempted, stages, p_pc, exit_code>>
    /\ UNCHANGED <<chunker_vars, embed_vars, chat_vars>>

\* lines 103-106, 117-119: processing one chunks file raises
EmbedFileFail ==
    /\ p_pc = "step3_loop"
    /\ \E f \in todo : Return(1)
    /\ UNCHANGED <<args, api_key, raw_pdfs, extracted, chunk_files,
                   embedding_files, store, todo, added, attempted, stages>>
    /\ UNCHANGED <<chunker_vars, embed_vars, chat_vars>>

\* line 121: the loop is over
EmbeddingEnd ==
    /\ p_pc = "step3_loop" /\ todo = {}
    /\ p_pc' = "step4"
    /\ UNCHANGED <<args, api_key, raw_pdfs, extracted, chunk_files,
                   embedding_files, store, todo, added, attempted, stages,
                   exit_code>>
    /\ UNCHANGED <<chunker_vars, embed_vars, chat_vars>>

\* mutant: the reset leaves the documents in place
reset_collection_Keep(s) == s

\* VectorStore.reset_collection: the collection is deleted and created anew
reset_collection(s) == {}

\* lines 125-162: open the store, reset it if asked, look for files, and
\* leave the store alone when it holds documents and no reset was asked
IndexingStart ==
    /\ p_pc = "step4"
    /\ stages' = Append(stages, "indexing")
    /\ LET s == IF args.reset_vector_store THEN reset_collection(store) ELSE store
       IN  /\ store' = s
           /\ IF embedding_files = {}
              THEN Return(1) /\ UNCHANGED todo
              ELSE IF Cardinality(s) > 0 /\ ~args.reset_vector_store
              THEN Return(0) /\ UNCHANGED todo
              ELSE /\ todo' = embedding_files
                   /\ p_pc' = "step4_loop"
                   /\ UNCHANGED exit_code
    /\ UNCHANGED <<args, api_key, raw_pdfs, extracted, chunk_files,
                   embedding_files, added, attempted>>
    /\ UNCHANGED <<chunker_vars, embed_vars, chat_vars>>

\* lines 163-166 and add_embeddings_from_file: every batch of the file is added
AddFileOk ==
    /\ p_pc = "step4_loop"
    /\ \E f \in todo :
          /\ store' = store \cup FileDocs(f)
          /\ attempted' = attempted \cup {f}
          /\ added' = added \cup {f}
          /\ todo' = todo \ {f}
    /\ UNCHANGED <<args, api_key, raw_pdfs, extracted, chunk_files,
                   embedding_files, stages, p_pc, exit_code>>
    /\ UNCHANGED <<chunker_vars, embed_vars, chat_vars>>

\* lines 163-165, 180-182 and add_embeddings_from_file lines 76-88:
\* collection.add raises after `done` batches of the file were written; the
\* exception leaves the loop and reaches the handler of main
AddFileFail ==
    /\ p_pc = "step4_loop"
    /\ \E f \in todo : \E done \in 0..(BatchesOf(f) - 1) :
          /\ store' = store \cup { <<f, b>> : b \in 1..done }
          /\ attempted' = attempted \cup {f}
    /\ Return(1)
    /\ UNCHANGED <<args, api_key, raw_pdfs, extracted, chunk_files,
                   embedding_files, todo, added, stages>>
    /\ UNCHANGED <<chunker_vars, embed_vars, chat_vars>>

\* lines 168-182: similarity_search raises NotImplementedError
\* (vector_store.py line 97), which the handler of main turns into return 1
SearchTest ==
    /\ p_pc = "step4_loop" /\ todo = {}
    /\ Return(1)
    /\ UNCHANGED <<args, api_key, raw_pdfs, extracted, chunk_files,
                   embedding_files, store, todo, added, attempted, stages>>
    /\ UNCHANGED <<chunker_vars, embed_vars, chat_vars>>

PipeNext ==
    \/ KeyCheck \/ Extraction \/ Chunking
    \/ EmbeddingStart \/ EmbedFileOk \/ EmbedFileFail \/ EmbeddingEnd
    \/ IndexingStart \/ AddFileOk \/ AddFileFail \/ SearchTest

-----------------------------------------------------------------------------
(* server/main.py: the /chat handler chat_with_gurdjieff *)

\* `n_results=5`
NResults == 5

\* `result["distance"] < 0.8`, distances counted in tenths
DistanceThreshold == 8

\* `context_texts[:3]`
ContextTop == 3

\* `result["text"][:200]`
PreviewLen == 200

\* the distances, in tenths, a stored chunk may have from the query
Distances == {1, 7, 8, 9}

\* the text of the chunk ranked i by the search: i letters and a full stop
HitText(i) == [j \in 1..i |-> "a"] \o <<".">>

\* what similarity_search_by_embedding returns for the distances ds: one
\* record per hit, nearest first
FormattedResults(ds) ==
    [i \in 1..Len(ds) |->
        [ id |-> i,
          text |-> HitText(i),
          metadata |-> [ source_file |-> source_info, chunk_id |-> i - 1 ],
          distance |-> ds[i] ]]

\* the results collection.query can give: at most n_results hits, ordered by
\* distance
QueryResults ==
    { FormattedResults(ds) :
        ds \in { d \in UNION { [1..n -> Distances] : n \in 0..NResults } :
                    \A i \in 1..(Len(d) - 1) : d[i] <= d[i + 1] } }

\* s[:n]
Slice(s, n) == SubSeq(s, 1, Min(n, Len(s)))

\* "\n\n".join(ts)
RECURSIVE JoinParas(_)
JoinParas(ts) ==
    IF ts = <<>> THEN <<>>
    ELSE IF Len(ts) = 1 THEN Head(ts)
    ELSE Head(ts) \o <<"\n", "\n">> \o JoinParas(Tail(ts))

\* the entry of `sources` for a result
SourceOf(result) ==
    [ source |-> result.metadata.source_file,
      chunk_id |-> result.metadata.chunk_id,
      distance |-> result.distance,
      preview |-> Slice(result.text, PreviewLen) \o <<".", ".", ".">> ]

\* `if result["distance"] < 0.8`
IsRelevant(result) == result.distance < DistanceThreshold

\* `context_texts[:3]`
PromptTexts(texts) == Slice(texts, ContextTop)

ChatIdle ==
    /\ search_results = <<>> /\ c_i = 0
    /\ context_texts = <<>> /\ sources = <<>> /\ context = <<>>
    /\ response_sources = <<>> /\ c_pc = "idle"

\* a request has reached the handler
ChatInit ==
    /\ search_results = <<>> /\ c_i = 0
    /\ context_texts = <<>> /\ sources = <<>> /\ context = <<>>
    /\ response_sources = <<>> /\ c_pc = "embed"

\* lines 88-90: generate_embedding returns a vector
QueryEmbeddingOk ==
    /\ c_pc = "embed"
    /\ c_pc' = "search"
    /\ UNCHANGED <<search_results, c_i, context_texts, sources, context,
                   response_sources>>
    /\ UNCHANGED <<chunker_vars, embed_vars, pipe_vars>>

\* lines 88-90, 154-155: generate_embedding returns [], the handler answers 500
QueryEmbeddingFail ==
    /\ c_pc = "embed"
    /\ c_pc' = "error"
    /\ UNCHANGED <<search_results, c_i, context_texts, sources, context,
                   response_sources>>
    /\ UNCHANGED <<chunker_vars, embed_vars, pipe_vars>>

\* lines 93-100: the search, and the two empty lists
Search ==
    /\ c_pc = "search"
    /\ search_results' \in QueryResults
    /\ context_texts' = <<>>
    /\ sources' = <<>>
    /\ c_i' = 1
    /\ c_pc' = "filter"
    /\ UNCHANGED <<context, response_sources>>
    /\ UNCHANGED <<chunker_vars, embed_vars, pipe_vars>>

\* lines 102-110: a result under the threshold is appended to both lists
KeepResult ==
    /\ c_pc = "filter" /\ c_i <= Len(search_results)
    /\ IsRelevant(search_results[c_i])
    /\ context_texts' = Append(context_texts, search_results[c_i].text)
    /\ sources' = Append(sources, SourceOf(search_results[c_i]))
    /\ c_i' = c_i + 1
    /\ UNCHANGED <<search_results, context, response_sources, c_pc>>
    /\ UNCHANGED <<chunker_vars, embed_vars, pipe_vars>>

\* lines 102-103: a result at or over the threshold is passed over
DropResult ==
    /\ c_pc = "filter" /\ c_i <= Len(search_results)
    /\ ~IsRelevant(search_results[c_i])
    /\ c_i' = c_i + 1
    /\ UNCHANGED <<search_results, context_texts, sources, context,
                   response_sources, c_pc>>
    /\ UNCHANGED <<chunker_vars, embed_vars, pipe_vars>>

\* line 113: the context of the prompt
BuildPrompt ==
    /\ c_pc = "filter" /\ c_i > Len(search_results)
    /\ context' = JoinParas(PromptTexts(context_texts))
    /\ c_pc' = "complete"
    /\ UNCHANGED <<search_results, c_i, context_texts, sources,
                   response_sources>>
    /\ UNCHANGED <<chunker_vars, embed_vars, pipe_vars>>

\* lines 137-152: the completion arrives and the response is returned
CompletionOk ==
    /\ c_pc = "complete"
    /\ response_sources' = sources
    /\ c_pc' = "responded"
    /\ UNCHANGED <<search_results, c_i, context_texts, sources, context>>
    /\ UNCHANGED <<chunker_vars, embed_vars, pipe_vars>>

\* lines 137-142, 154-155: the completion call raises, the handler answers 500
CompletionFail ==
    /\ c_pc = "complete"
    /\ c_pc' = "error"
    /\ UNCHANGED <<search_results, c_i, context_texts, sources, context,
                   response_sources>>
    /\ UNCHANGED <<chunker_vars, embed_vars, pipe_vars>>

ChatNext ==
    \/ QueryEmbeddingOk \/ QueryEmbeddingFail \/ Search
    \/ KeepResult \/ DropResult \/ BuildPrompt
    \/ CompletionOk \/ CompletionFail

-----------------------------------------------------------------------------
(* Specifications *)

\* one call of TextChunker.create_chunks
Init == ChunkerInit /\ EmbedIdle /\ PipeIdle /\ ChatIdle
Next == ChunkerNext
Spec == Init /\ [][Next]_vars

\* one call of EmbeddingService.process_chunks_file
EmbedSpecInit == ChunkerIdle /\ EmbedInit /\ PipeIdle /\ ChatIdle
EmbedSpecNext == EmbedNext
EmbedSpec == EmbedSpecInit /\ [][EmbedSpecNext]_vars

\* one run of process_all.main
PipeSpecInit == ChunkerIdle /\ EmbedIdle /\ PipeInit /\ ChatIdle
PipeSpecNext == PipeNext
PipeSpec == PipeSpecInit /\ [][PipeSpecNext]_vars

\* one call of TextChunker.create_chunks on any short raw text
TextInit == ChunkerTextInit /\ EmbedIdle /\ PipeIdle /\ ChatIdle
TextSpec == TextInit /\ [][Next]_vars

\* one request to /chat
ChatSpecInit == ChunkerIdle /\ EmbedIdle /\ PipeIdle /\ ChatInit
ChatSpecNext == ChatNext
ChatSpec == ChatSpecInit /\ [][ChatSpecNext]_vars

-----------------------------------------------------------------------------
(* Properties of create_chunks *)

\* the configurations the chunker is meant for
ValidConfig == chunk_size > 0 /\ 0 <= chunk_overlap /\ chunk_overlap < chunk_size

\* the sentences of chunk k: its overlap prefix, then its new sentences
ChunkSentences(k) == chunk_log[k].overlap \o chunk_log[k].new

\* chunk k is one sentence only, and that sentence alone is over the budget
SingleOversized(k) ==
    /\ chunk_log[k].overlap = <<>>
    /\ Len(chunk_log[k].new) = 1
    /\ count_tokens(chunk_log[k].new[1]) > chunk_size

\* the concatenation of a sequence of sequences
RECURSIVE Concat(_)
Concat(ss) == IF ss = <<>> THEN <<>> ELSE Head(ss) \o Concat(Tail(ss))

\* a is a suffix of b
IsSuffix(a, b) ==
    Len(a) <= Len(b) /\ SubSeq(b, Len(b) - Len(a) + 1, Len(b)) = a

\* C1: with chunk_size > 0 and 0 <= chunk_overlap < chunk_size, every chunk
\* has token_count <= chunk_size unless it is a single sentence that is
\* itself over chunk_size; chunks that begin with overlap text included.
C1_Budget ==
    ValidConfig =>
        \A k \in 1..Len(chunks) :
            chunks[k].token_count <= chunk_size \/ SingleOversized(k)

\* C2: the new (non-overlap) sentences of the chunks, concatenated in chunk
\* order, are the original sentence sequence, each sentence once and in
\* order; a chunk's text is its overlap sentences then its new sentences.
C2_Reconstruction ==
    pc = "done" =>
        /\ Len(chunk_log) = Len(chunks)
        /\ Concat([k \in 1..Len(chunk_log) |-> chunk_log[k].new]) = sentences
        /\ \A k \in 1..Len(chunks) : chunks[k].text = JoinSp(ChunkSentences(k))

\* C2 witness: a finished run of three or more chunks, one with an overlap
\* prefix and one with several new sentences
C2_Witness ==
    /\ pc = "done" /\ Len(chunks) >= 3
    /\ \E k \in 1..Len(chunks) : chunk_log[k].overlap # <<>>
    /\ \E k \in 1..Len(chunks) : Len(chunk_log[k].new) >= 2

\* C3: the overlap prefix of chunk i+1, which is the tail of the sentences
\* chunk i added, has a token count (on its space-joined text) of at most
\* chunk_overlap.
C3_OverlapBound ==
    \A k \in 2..Len(chunks) :
        /\ count_tokens(JoinSp(chunk_log[k].overlap)) <= chunk_overlap
        /\ IsSuffix(chunk_log[k].overlap, ChunkSentences(k - 1))

\* C3 witness: a chunk whose overlap prefix uses the whole overlap budget
C3_Witness ==
    \E k \in 2..Len(chunks) :
        /\ ValidConfig
        /\ Len(chunk_log[k].overlap) >= 2
        /\ count_tokens(JoinSp(chunk_log[k].overlap)) = chunk_overlap

\* C4: every chunk's token_count is the token count of its stored (trimmed)
\* text.
C4_TokenCountOfText ==
    \A k \in 1..Len(chunks) : chunks[k].token_count = count_tokens(chunks[k].text)

\* C4 witness: chunks emitted inside the loop and the final chunk, one of them
\* starting with an overlap prefix
C4_Witness ==
    /\ pc = "done" /\ Len(chunks) >= 2
    /\ \E k \in 1..Len(chunks) : chunk_log[k].overlap # <<>>

\* C5: the chunk at list position k (from 0) has chunk_id k.
C5_ChunkIds ==
    \A k \in 1..Len(chunks) : chunks[k].chunk_id = k - 1

\* C5 witness: a returned list of at least three chunks
C5_Witness == pc = "done" /\ Len(chunks) >= 3

\* C6: a sentence that alone exceeds chunk_size is the only sentence of the
\* chunk that holds it, whose token_count is the sentence's own count; an
\* input of one such sentence gives one chunk holding it.
C6_OversizedAlone ==
    (pc = "done" /\ ValidConfig) =>
        /\ \A k \in 1..Len(chunks) : \A j \in 1..Len(chunk_log[k].new) :
              LET s == chunk_log[k].new[j]
              IN  count_tokens(s) > chunk_size =>
                     /\ chunks[k].text = s
                     /\ chunks[k].token_count = count_tokens(s)
        /\ (Len(sentences) = 1 /\ count_tokens(sentences[1]) > chunk_size) =>
              (Len(chunks) = 1 /\ chunks[1].text = sentences[1])

\* C7: the chunk list is empty exactly when the cleaned text holds nothing
\* but whitespace; an empty or whitespace-only text gives no chunk.
C7_EmptyIffNoSentence ==
    pc = "done" =>
        /\ (chunks = <<>>) <=>
              (\A k \in 1..Len(clean_text(text)) : IsSpace(clean_text(text)[k]))
        /\ (\A k \in 1..Len(text) : IsSpace(text[k])) => chunks = <<>>

\* C7 witness: a text with visible characters that cleans to nothing
C7_Witness ==
    /\ pc = "done" /\ chunks = <<>>
    /\ \E k \in 1..Len(text) : ~IsSpace(text[k])

\* C8 as claimed: with chunk_overlap > 0 every chunk after the first begins
\* with at least one sentence of the tail of the chunk before it.
C8_AlwaysOverlap ==
    (ValidConfig /\ chunk_overlap > 0) =>
        \A k \in 2..Len(chunks) : chunk_log[k].overlap # <<>>

\* C8 as amended: chunk i+1 begins with sentences of the tail of chunk i
\* exactly when the last sentence of chunk i has at most chunk_overlap
\* tokens; then the overlap ends with that last sentence.
C8_OverlapWhenLastFits ==
    \A k \in 2..Len(chunks) :
        LET prev == chunk_log[k - 1].new
            ov == chunk_log[k].overlap
        IN  /\ prev # <<>>
            /\ (ov # <<>>) <=> (count_tokens(prev[Len(prev)]) <= chunk_overlap)
            /\ IsSuffix(ov, prev)

\* C8 witness: with chunk_overlap > 0, a chunk that starts with an overlap and
\* a chunk that starts without one
C8_Witness ==
    /\ ValidConfig /\ chunk_overlap > 0
    /\ \E k \in 2..Len(chunks) : chunk_log[k].overlap # <<>>
    /\ \E k \in 2..Len(chunks) : chunk_log[k].overlap = <<>>

\* the positions _create_overlap visits when run on current_sentences
ScanVisits == OverlapScanVisits(current_sentences, Len(current_sentences), <<>>,
                                chunk_overlap)

\* the steps create_chunks has left at most: one per sentence not yet
\* consumed, and the return
StepsLeft ==
    IF pc = "start" THEN Len(text) + 2
    ELSE IF pc = "loop" THEN Len(sentences) + 2 - idx
    ELSE 0

\* C11: create_chunks terminates for every sentence sequence and every
\* configuration with chunk_size > 0 and chunk_overlap >= 0, chunk_overlap >=
\* chunk_size included: every step lowers the count of steps left, which is
\* never negative and is zero exactly when the call has returned;
\* each loop step consumes exactly one sentence, and the overlap scan visits
\* each of current_sentences at most once.
C11_Terminates ==
    [][ /\ StepsLeft' < StepsLeft /\ StepsLeft' >= 0
        /\ (StepsLeft' = 0) <=> (pc' = "done")
        /\ (pc = "loop" /\ pc' = "loop") =>
               (idx <= Len(sentences) /\ idx' = idx + 1)
        /\ (pc = "loop") =>
               LET v == ScanVisits
               IN  /\ Len(v) <= Len(current_sentences)
                   /\ \A i, j \in 1..Len(v) :
                         /\ v[i] \in 1..Len(current_sentences)
                         /\ i # j => v[i] # v[j] ]_vars

\* C11 witness: a finished call with chunk_overlap >= chunk_size in which the
\* overlap of a chunk is every new sentence of the chunk before it
C11_Witness ==
    /\ pc = "done" /\ chunk_overlap >= chunk_size
    /\ \E k \in 2..Len(chunks) :
          /\ Len(chunk_log[k].overlap) >= 2
          /\ chunk_log[k].overlap = chunk_log[k - 1].new

\* the last n sentences of ss
LastN(ss, n) == SubSeq(ss, Len(ss) - n + 1, Len(ss))

RECURSIVE LastPos(_)
LastPos(k) == IF k = 0 THEN 0 ELSE LastPos(k - 1) + Len(chunk_log[k].new)

\* the position in `sentences` of the first sentence of chunk k, overlap
\* included
FirstPos(k) == LastPos(k - 1) + 1 - Len(chunk_log[k].overlap)

\* C16: the text of every returned chunk is the single-space join of a
\* contiguous run of `sentences` in their order, its overlap sentences
\* directly followed by its new ones; the new sentences of chunk k + 1 begin
\* right after the last sentence of chunk k, and the last chunk ends with the
\* last sentence.
C16_ContiguousRun ==
    pc = "done" =>
        /\ \A k \in 1..Len(chunks) :
              /\ 1 <= FirstPos(k) /\ FirstPos(k) <= LastPos(k - 1) + 1
              /\ LastPos(k - 1) < LastPos(k) /\ LastPos(k) <= Len(sentences)
              /\ ChunkSentences(k) = SubSeq(sentences, FirstPos(k), LastPos(k))
              /\ chunks[k].text =
                     JoinSp(SubSeq(sentences, FirstPos(k), LastPos(k)))
        /\ LastPos(Len(chunks)) = Len(sentences)

\* C16 witness: three or more chunks over sentences that are not all alike,
\* one chunk with an overlap and two or more new sentences
C16_Witness ==
    /\ pc = "done" /\ Len(chunks) >= 3
    /\ \E i, j \in 1..Len(sentences) : sentences[i] # sentences[j]
    /\ \E k \in 2..Len(chunks) :
          chunk_log[k].overlap # <<>> /\ Len(chunk_log[k].new) >= 2

\* C12: once clean_text has run, its output holds no two consecutive
\* whitespace characters.
C12_NoWhitespaceRun ==
    pc # "start" =>
        LET cleaned == clean_text(text)
        IN  \A i \in 1..(Len(cleaned) - 1) :
               ~(IsSpace(cleaned[i]) /\ IsSpace(cleaned[i + 1]))

-----------------------------------------------------------------------------
(* Properties of the embedding service *)

\* what generate_embeddings_batch owes for the text at 0-based position i
ExpectedEmbedding(i) ==
    IF i \in e_failed THEN <<>> ELSE Embedding(e_chunks[i + 1].text)

\* C9: the list returned has one entry per text, entry i being the embedding
\* of text i or, if its batch failed, the empty placeholder; process_chunks_file
\* attaches entry i to chunk i.
C9_Alignment ==
    /\ (e_pc = "batches" /\ e_i >= Len(e_chunks)) =>
          /\ Len(embeddings) = Len(e_chunks)
          /\ \A i \in 0..(Len(e_chunks) - 1) : embeddings[i + 1] = ExpectedEmbedding(i)
    /\ e_pc # "IndexError"
    /\ e_pc = "done" =>
          \A i \in 0..(Len(e_chunks) - 1) :
              e_chunks[i + 1].embedding = ExpectedEmbedding(i)

\* C9 witness: a finished file of several batches, one failed and followed by
\* one that succeeded
C9_Witness ==
    /\ e_pc = "done"
    /\ \E i, j \in 0..(Len(e_chunks) - 1) :
          i < j /\ i \in e_failed /\ j \notin e_failed

-----------------------------------------------------------------------------
(* Properties of the pipeline *)

\* the stages of main in the order of its source, and those a run does not skip
StageOrder == <<"extraction", "chunking", "embedding", "indexing">>

Skipped(stage) ==
    \/ stage = "extraction" /\ args.skip_extraction
    \/ stage = "chunking" /\ args.skip_chunking
    \/ stage = "embedding" /\ args.skip_embeddings

WantedStages == SelectSeq(StageOrder, LAMBDA stage : ~Skipped(stage))

\* C14: the stages a run starts are, in order, the first non-skipped stages of
\* extraction, chunking, embedding, indexing; a stage starts only when no file
\* of the one before is pending; main takes no step after it has returned;
\* and when a stage before indexing fails main returns 1, indexing is never
\* started and the vector store is left as it was.
C14_StagesInOrder ==
    [][ /\ exit_code = -1 /\ p_pc # "done"
        /\ (exit_code' # -1) <=> (p_pc' = "done")
        /\ Len(stages') <= Len(WantedStages)
        /\ stages' = SubSeq(WantedStages, 1, Len(stages'))
        /\ stages' # stages => todo = {}
        /\ (\A i \in 1..Len(stages') : stages'[i] # "indexing") =>
               /\ store' = store
               /\ attempted' = {}
               /\ exit_code' \in {-1, 1} ]_vars

\* C14 witness: the embedding stage fails after it has written an embedding
\* file, and the run ends with exit code 1 and a store nobody touched
C14_Witness ==
    /\ p_pc = "done" /\ exit_code = 1
    /\ stages = <<"extraction", "chunking", "embedding">>
    /\ embedding_files # {} /\ chunk_files \ embedding_files # {}
    /\ store = {OldDoc} /\ args.reset_vector_store

\* C15: a run in which no stage failed and the indexing stage added every
\* embedding file, no add raising, ends with exit code 0.
C15_SuccessReturnsZero ==
    ( /\ p_pc = "done"
      /\ stages = WantedStages
      /\ embedding_files # {}
      /\ added = embedding_files /\ attempted = added )
    => exit_code = 0

\* C10: in the indexing stage a failure while writing one embedding file
\* aborts only that file: the other embedding files are still added and the
\* run is not aborted.
C10_FailureSkipsOneFile ==
    (p_pc = "done" /\ Cardinality(embedding_files) >= 2) =>
        \A f \in attempted \ added :
            /\ \A g \in embedding_files \ {f} : g \in added
            /\ exit_code # 1

\* the indexing stage begins on a store that holds documents, without
\* --reset-vector-store
SkipsUpdate == p_pc = "step4" /\ ~args.reset_vector_store /\ store # {}

\* with --reset-vector-store the collection is emptied as the stage begins,
\* before any file is added
ResetComesFirst ==
    (p_pc = "step4" /\ args.reset_vector_store) =>
        (store' = {} /\ attempted = {} /\ attempted' = {})

\* C18 as claimed: when the indexing stage begins on a store that holds
\* documents and no reset was asked, the stage adds nothing, the store is
\* left as it is and main returns 0; with a reset the collection is emptied
\* before any file is added.
C18_SkipReturnsZero ==
    [][ /\ SkipsUpdate =>
              /\ store' = store /\ attempted' = {}
              /\ p_pc' = "done" /\ exit_code' = 0
        /\ ResetComesFirst ]_vars

\* C18 as amended: in that case the stage adds nothing and leaves the store
\* as it is; main returns 0 when an embedding file exists and 1 when none
\* does; with a reset the collection is emptied before any file is added.
C18_SkipLeavesStore ==
    [][ /\ SkipsUpdate =>
              /\ store' = store /\ attempted' = {}
              /\ p_pc' = "done"
              /\ exit_code' = IF embedding_files # {} THEN 0 ELSE 1
        /\ ResetComesFirst ]_vars

\* C18 witness: a run that found documents in the store and embedding files
\* on disk, and returned 0 with the store as it was
C18_Witness ==
    /\ p_pc = "done" /\ exit_code = 0
    /\ ~args.reset_vector_store
    /\ store = {OldDoc} /\ embedding_files # {} /\ attempted = {}
    /\ stages # <<>> /\ stages[Len(stages)] = "indexing"

-----------------------------------------------------------------------------
(* Properties of the /chat handler *)

\* the text t is one of the excerpts of the context ctx: it stands there
\* between the start, the end or blank lines
InContext(t, ctx) ==
    \E p \in 1..(Len(ctx) - Len(t) + 1) :
       LET last == p + Len(t) - 1
       IN  /\ SubSeq(ctx, p, last) = t
           /\ \/ p = 1
              \/ p >= 3 /\ ctx[p - 1] = "\n" /\ ctx[p - 2] = "\n"
           /\ \/ last = Len(ctx)
              \/ last + 2 <= Len(ctx) /\ ctx[last + 1] = "\n" /\ ctx[last + 2] = "\n"

\* the chunk of a search result is listed in the sources of the response
InSources(result) ==
    \E k \in 1..Len(response_sources) :
       /\ response_sources[k].chunk_id = result.metadata.chunk_id
       /\ response_sources[k].source = result.metadata.source_file

\* C17: in a successful /chat response a retrieved chunk is listed in sources
\* exactly when its text is part of the context of the prompt, and both are
\* the search results with distance < 0.8.
C17_SourcesMatchContext ==
    c_pc = "responded" =>
        \A i \in 1..Len(search_results) :
           /\ InSources(search_results[i]) <=>
                  InContext(search_results[i].text, context)
           /\ InSources(search_results[i]) <=> IsRelevant(search_results[i])

=============================================================================
